---- MODULE Spec2Model ----
(***************************************************************************)
(* Model of DiscoAgent: the feed reader / author resolver                  *)
(* (DiscordAgent.getNewMessages, in its two variants), the reply chunker   *)
(* (DiscordAgent.splitMessage), the assistant runner with its session      *)
(* store (ClaudeAgent.processMessage, BaseAgent.loadSessions/saveSessions) *)
(* and the loop that ties them (ChatOrchestrator.run, DiscordAgent.run).   *)
(***************************************************************************)
EXTENDS Integers, Sequences, FiniteSets, TLC

(* ------------------------------------------------------------------ *)
(* Bounds of the model                                                *)
(* ------------------------------------------------------------------ *)
\* Message ids the host hands out during one behaviour: 1..MaxId.
MaxId == 3
\* Longest reply text given to splitMessage.
MaxTextLen == 6
\* Largest maxLength given to splitMessage.
MaxChunkLen == 3
\* Longest batch of new messages a poll returns.
MaxBatch == 2
\* Longest reply text given to sendMessage.
MaxSendLen == 2

(* ------------------------------------------------------------------ *)
(* Values                                                             *)
(* ------------------------------------------------------------------ *)
\* JavaScript null / an unset field.
None == "none"
\* this.lastMessageId = null: no message id (ids start at 1).
NoId == 0
\* The author the extraction gives a record without a username element.
Unknown == "Unknown"
\* config.botName
BotName == "ClaudeAgent"
\* Display names of the other participants of the channel.
Authors == {"alice", "bob"}
\* What the DOM extraction can yield as a record's author.
RawAuthors == Authors \cup {BotName, Unknown}
\* Message bodies after trim(): empty or not.
Contents == {"", "hi"}
\* The two copies of getNewMessages kept in the repository.
Variants == {"agent", "platform"}
\* Values of STARTUP_MESSAGE_LIMIT tried: process all, skip all, last L.
Limits == {-1, 0, 1, 2}
\* An optional setting: absent (undefined), or present with the integer its
\* text parses to.
Undefined == [set |-> FALSE, value |-> 0]
Defined(n) == [set |-> TRUE, value |-> n]
\* process.env.STARTUP_MESSAGE_LIMIT: not configured, or one of Limits.
EnvLimits == {Undefined} \cup {Defined(n) : n \in Limits}
\* The limit main() puts in the configuration when the variable is not set.
MainDefaultLimit == 0
\* The limit the constructor takes when the configuration has none.
ConstructorDefaultLimit == 3
\* The limit the documentation gives as the default.
DocumentedDefaultLimit == 3
\* config.startupMessageLimit as main() builds it.
MainLimit(env) ==
    IF env.set THEN Defined(env.value) ELSE Defined(MainDefaultLimit)
\* this.startupMessageLimit as the constructor sets it from the config.
ConstructorLimit(cfg) ==
    IF cfg.set THEN cfg.value ELSE ConstructorDefaultLimit

VARIABLES
    variant,               \* which copy of DiscordAgent runs
    envStartupLimit,       \* process.env.STARTUP_MESSAGE_LIMIT
    startupMessageLimit,   \* this.startupMessageLimit
    feed,                  \* the records the page renders now, oldest first
    nextId,                \* the id the host gives the next message
    lastMessageId,         \* this.lastMessageId
    lastKnownAuthor,       \* this.lastKnownAuthor
    isStartup,             \* this.isStartup
    phase,                 \* "idle": the page changed since the last poll; "polled"
    newMessages,           \* what the last getNewMessages returned
    messages,              \* the snapshot of the last poll, authors resolved
    lastMessageIdBefore,   \* this.lastMessageId when the last poll started
    lastKnownAuthorBefore, \* this.lastKnownAuthor when the last poll started
    isStartupBefore,       \* this.isStartup when the last poll started
    repeatPoll,            \* the last poll read the same snapshot as the one before
    text,                  \* splitMessage: the reply, a sequence of characters
    maxLength,             \* splitMessage: its maxLength argument
    chunks,                \* splitMessage: the chunks returned
    splitPhase,            \* "input" | "done"
    targetChannel,         \* config.targetChannel
    useConversationMode,   \* ClaudeAgent.useConversationMode
    sessionFile,           \* claude-sessions.json on disk
    sessions,              \* BaseAgent.sessions: channel key -> token
    sessionId,             \* BaseAgent.sessionId: the in-memory token
    runnerPc,              \* "start" | "ready" | "retry" (the nested call is due)
    invocations,           \* the assistant invocations of the current call
    result,                \* what the last processMessage returned
    lastReturned,          \* session id the latest invocation returned, or None
    restarted,             \* the process was restarted since the latest invocation
    tempFiles,             \* the claude-prompt-*.txt files in os.tmpdir()
    testingMode,           \* the loop's testingMode
    filterMentions,        \* the loop's filterMentions, <<>> for null
    running,               \* ChatOrchestrator.running
    loopPc,                \* where run() is: "start" | "poll" | "dispatch" | "sleep"
                           \* | "backoff" | "returned" | "rejected"
    pageClosed,            \* the browser page has been closed
    batchSize,             \* newMessages.length of the cycle
    handled,               \* messages of the batch the for loop has been through
    lastHandled,           \* what the for loop did with the latest of them
    cycle,                 \* what failed in the cycle so far
    visible,               \* sendMessage: what isVisible does for each selector
    appears,               \* sendMessage: the awaited element shows up in time
    sendPc,                \* sendMessage: "call" | "done"
    messageBox,            \* sendMessage: the selector messageBox locates, 0: null
    sendError,             \* sendMessage: the message of the error thrown
    posted,                \* sendMessage: the chunks filled and submitted
    botChunks,             \* ids of the continuation chunks of the bot's replies
    lostIds,               \* ids of the snapshots polled with the cursor missing
    emitCount,             \* how many polls emitted the record of each id
    firstPollAt            \* nextId at the first poll, 0 before it

feedVars == <<variant, envStartupLimit, startupMessageLimit, feed, nextId, lastMessageId,
              lastKnownAuthor, isStartup, phase, newMessages, messages,
              lastMessageIdBefore, lastKnownAuthorBefore, isStartupBefore,
              repeatPoll>>

splitVars == <<text, maxLength, chunks, splitPhase>>

runnerVars == <<targetChannel, useConversationMode, sessionFile, sessions,
                sessionId, runnerPc, invocations, result, lastReturned,
                restarted, tempFiles>>

loopVars == <<testingMode, filterMentions, running, loopPc, pageClosed,
              batchSize, handled, lastHandled, cycle>>

sendVars == <<visible, appears, sendPc, messageBox, sendError, posted>>

\* What is observed of a behaviour; the program has no such fields.
histVars == <<botChunks, lostIds, emitCount, firstPollAt>>

vars == <<feedVars, splitVars, runnerVars, loopVars, sendVars, histVars>>

(* ------------------------------------------------------------------ *)
(* Helpers                                                            *)
(* ------------------------------------------------------------------ *)
SetMax(S) == CHOOSE x \in S : \A y \in S : y <= x

\* Mutant: the filter without the content test.
EmittableAnyContent(msg) == msg.author # BotName

\* Mutant: the filter also drops records of unknown authorship.
EmittableKnownOnly(msg) ==
    msg.author # BotName /\ msg.author # Unknown /\ msg.content # ""

\* msg.author !== this.botName && msg.content && msg.content.length > 0
Emittable(msg) == msg.author # BotName /\ msg.content # ""

\* The records of msgs at positions from..Len(msgs) that pass the filter,
\* in order (the push loops of getNewMessages).
RECURSIVE PushFrom(_, _)
PushFrom(msgs, from) ==
    IF from > Len(msgs) THEN <<>>
    ELSE (IF Emittable(msgs[from]) THEN <<msgs[from]>> ELSE <<>>)
         \o PushFrom(msgs, from + 1)

(* ------------------------------------------------------------------ *)
(* Author resolution, platform variant                                *)
(* ------------------------------------------------------------------ *)
\* Mutant: the update without the test for the bot's name.
UpdateLastKnownAuthorAny(lka, author) ==
    IF author # Unknown THEN author ELSE lka

\* else if (msg.author !== 'Unknown' && msg.author !== this.botName)
\*     this.lastKnownAuthor = msg.author
UpdateLastKnownAuthor(lka, author) ==
    IF author # Unknown /\ author # BotName THEN author ELSE lka

\* for (let j = i - 1; j >= 0; j--): the author of the nearest earlier
\* record whose author is known and is not the bot, or None.
LookBack(msgs, i) ==
    LET js == {j \in 1 .. (i - 1) :
                 msgs[j].author # Unknown /\ msgs[j].author # BotName}
    IN IF js = {} THEN None ELSE msgs[SetMax(js)].author

\* The resolution loop, from record i on; msgs is mutated in place and
\* lka is this.lastKnownAuthor.
RECURSIVE ResolvePlatformFrom(_, _, _)
ResolvePlatformFrom(msgs, lka, i) ==
    IF i > Len(msgs) THEN [messages |-> msgs, lastKnownAuthor |-> lka]
    ELSE IF msgs[i].author = Unknown
    THEN LET back == LookBack(msgs, i)
             resolvedAuthor == IF back # None THEN back ELSE lka
         IN IF resolvedAuthor # None
            THEN ResolvePlatformFrom([msgs EXCEPT ![i].author = resolvedAuthor],
                                     lka, i + 1)
            ELSE ResolvePlatformFrom(msgs, lka, i + 1)
    ELSE ResolvePlatformFrom(msgs, UpdateLastKnownAuthor(lka, msgs[i].author),
                             i + 1)

\* The last record, from the end, whose author is known and not the bot.
TraceBack(msgs) ==
    LET js == {j \in 1 .. Len(msgs) :
                 msgs[j].author # Unknown /\ msgs[j].author # BotName}
    IN IF js = {} THEN None ELSE msgs[SetMax(js)].author

\* "On startup, ensure we have a last known author": runs after the loop.
EnsureLastKnownAuthor(msgs, lka) ==
    IF lka = None /\ Len(msgs) > 0 THEN TraceBack(msgs) ELSE lka

ResolvePlatform(msgs, lka) ==
    LET r == ResolvePlatformFrom(msgs, lka, 1)
    IN [messages |-> r.messages,
        lastKnownAuthor |-> EnsureLastKnownAuthor(r.messages, r.lastKnownAuthor)]

(* ------------------------------------------------------------------ *)
(* Author resolution, agent variant                                   *)
(* ------------------------------------------------------------------ *)
\* The loop that applies lastKnownAuthor, from record i on.
RECURSIVE ApplyAgentFrom(_, _, _)
ApplyAgentFrom(msgs, lka, i) ==
    IF i > Len(msgs) THEN [messages |-> msgs, lastKnownAuthor |-> lka]
    ELSE IF msgs[i].author = Unknown
    THEN IF i > 1 /\ msgs[i - 1].author # Unknown /\ msgs[i - 1].author # BotName
         THEN ApplyAgentFrom([msgs EXCEPT ![i].author = msgs[i - 1].author],
                             lka, i + 1)
         ELSE ApplyAgentFrom([msgs EXCEPT ![i].author = lka], lka, i + 1)
    ELSE ApplyAgentFrom(msgs, UpdateLastKnownAuthor(lka, msgs[i].author), i + 1)

ResolveAgent(msgs, lka) ==
    LET traced == IF lka = None /\ Len(msgs) > 0 THEN TraceBack(msgs) ELSE lka
    IN IF traced # None
       THEN ApplyAgentFrom(msgs, traced, 1)
       ELSE [messages |-> msgs, lastKnownAuthor |-> traced]

ResolveAuthors(v, msgs, lka) ==
    IF v = "platform" THEN ResolvePlatform(msgs, lka) ELSE ResolveAgent(msgs, lka)

(* ------------------------------------------------------------------ *)
(* Deduplication and the startup window (the same in both variants)   *)
(* ------------------------------------------------------------------ *)
\* Mutant: with the cursor's record missing every record is considered.
AfterLastOrAll(msgs, last) ==
    IF last = NoId THEN PushFrom(msgs, 1)
    ELSE LET at == {i \in 1 .. Len(msgs) : msgs[i].id = last}
         IN IF at = {} THEN PushFrom(msgs, 1)
            ELSE PushFrom(msgs, (CHOOSE i \in at : \A k \in at : i <= k) + 1)

\* "Normal operation": the filtered records after the one whose id is last;
\* with last unset foundLast starts true and every record is considered.
AfterLast(msgs, last) ==
    IF last = NoId THEN PushFrom(msgs, 1)
    ELSE LET at == {i \in 1 .. Len(msgs) : msgs[i].id = last}
         IN IF at = {} THEN <<>>
            ELSE PushFrom(msgs, (CHOOSE i \in at : \A k \in at : i <= k) + 1)

\* Mutant: the startup window starts one record too early.
SelectNewOffByOne(msgs, last, startup, limit) ==
    IF startup /\ last = NoId /\ limit >= 0 /\ Len(msgs) > limit
    THEN IF limit = 0 THEN <<>>
         ELSE PushFrom(msgs, Len(msgs) - limit)
    ELSE IF startup /\ last = NoId /\ limit < 0
    THEN PushFrom(msgs, 1)
    ELSE AfterLast(msgs, last)

\* Mutant: the window is applied whenever the cursor is unset, whatever the
\* startup flag.
SelectNewIgnoreStartup(msgs, last, startup, limit) ==
    IF last = NoId /\ limit >= 0 /\ Len(msgs) > limit
    THEN IF limit = 0 THEN <<>>
         ELSE PushFrom(msgs, Len(msgs) - limit + 1)
    ELSE IF last = NoId /\ limit < 0
    THEN PushFrom(msgs, 1)
    ELSE AfterLast(msgs, last)

SelectNew(msgs, last, startup, limit) ==
    IF startup /\ last = NoId /\ limit >= 0 /\ Len(msgs) > limit
    THEN IF limit = 0 THEN <<>>
         ELSE PushFrom(msgs, Len(msgs) - limit + 1)
    ELSE IF startup /\ last = NoId /\ limit < 0
    THEN PushFrom(msgs, 1)
    ELSE AfterLast(msgs, last)

\* Mutant: the cursor is set to the oldest record of the snapshot.
AdvanceCursorFirst(msgs, last) ==
    IF Len(msgs) > 0 THEN msgs[1].id ELSE last

\* Mutant: an empty snapshot resets the cursor.
AdvanceCursorReset(msgs, last) ==
    IF Len(msgs) > 0 THEN msgs[Len(msgs)].id ELSE NoId

\* Mutant: the cursor is set once and never moved.
AdvanceCursorOnce(msgs, last) ==
    IF Len(msgs) > 0 /\ last = NoId THEN msgs[Len(msgs)].id ELSE last

\* if (messages.length > 0) this.lastMessageId = messages[messages.length - 1].id
AdvanceCursor(msgs, last) ==
    IF Len(msgs) > 0 THEN msgs[Len(msgs)].id ELSE last

(* ------------------------------------------------------------------ *)
(* splitMessage (the same in both variants)                           *)
(* ------------------------------------------------------------------ *)
\* The line break and the other characters of a reply.
NL == "\n"
Chars == {"a", "b", NL}

\* All texts of at most n characters.
TextsUpTo(n) == UNION {[1 .. k -> Chars] : k \in 0 .. n}

\* text.split('\n'): the lines of a text; the empty text has one empty line.
RECURSIVE SplitLines(_)
SplitLines(t) ==
    IF \A i \in 1 .. Len(t) : t[i] # NL THEN <<t>>
    ELSE LET p == CHOOSE i \in 1 .. Len(t) :
                     t[i] = NL /\ \A k \in 1 .. (i - 1) : t[k] # NL
         IN <<SubSeq(t, 1, p - 1)>> \o SplitLines(SubSeq(t, p + 1, Len(t)))

\* chunks.join('\n')
RECURSIVE JoinLines(_)
JoinLines(cs) ==
    IF Len(cs) = 0 THEN <<>>
    ELSE IF Len(cs) = 1 THEN cs[1]
    ELSE cs[1] \o <<NL>> \o JoinLines(Tail(cs))

\* if (currentChunk) chunks.push(currentChunk): the empty string is falsy.
PushChunk(cs, currentChunk) ==
    IF currentChunk # <<>> THEN Append(cs, currentChunk) ELSE cs

\* for (const line of lines) { ... }, from line i on.
RECURSIVE SplitLoop(_, _, _, _, _)
SplitLoop(lines, i, cs, currentChunk, max) ==
    IF i > Len(lines) THEN PushChunk(cs, currentChunk)
    ELSE IF Len(currentChunk) + Len(lines[i]) + 1 > max
    THEN SplitLoop(lines, i + 1, PushChunk(cs, currentChunk), lines[i], max)
    ELSE SplitLoop(lines, i + 1, cs,
                   currentChunk
                     \o (IF currentChunk # <<>> THEN <<NL>> ELSE <<>>)
                     \o lines[i],
                   max)

splitMessage(t, max) ==
    IF Len(t) <= max THEN <<t>>
    ELSE SplitLoop(SplitLines(t), 1, <<>>, <<>>, max)

\* No reply is being split.
SplitIdle ==
    /\ text = <<>>
    /\ maxLength = MaxChunkLen
    /\ chunks = <<>>
    /\ splitPhase = "done"

(* ------------------------------------------------------------------ *)
(* The session store (BaseAgent) and the runner (ClaudeAgent)         *)
(* ------------------------------------------------------------------ *)
\* Session tokens the assistant hands out.
Tokens == {"s1", "s2"}

\* Channel targets, as sequences of characters.
Channels == {<<"g", "e", "n">>, <<"d", "-", "v">>, <<"d", "_", "v">>}

\* [a-zA-Z0-9], as far as the channel targets go.
Alnum == {"g", "e", "n", "d", "v"}

\* channel.replace(/[^a-zA-Z0-9]/g, '_')
getChannelKey(channel) ==
    [i \in 1 .. Len(channel) |->
        IF channel[i] \in Alnum THEN channel[i] ELSE "_"]

ChannelKeys == {getChannelKey(c) : c \in Channels}

\* this.sessions = {}
NoSessions == [k \in ChannelKeys |-> None]

SessionMaps == [ChannelKeys -> Tokens \cup {None}]

\* The session file: missing, not parsable, or a JSON object.
SessionFiles ==
    {[state |-> "absent", data |-> NoSessions],
     [state |-> "corrupt", data |-> NoSessions]}
    \cup {[state |-> "valid", data |-> m] : m \in SessionMaps}

\* How an invocation of the assistant can fail: error.message mentions
\* 'session' or 'invalid' (InvalidSession), 'not found' (NotFound), 'is not
\* recognized' (NotRecognized), the process was killed at the timeout
\* (Timeout), or none of these (Other).
ErrorKinds == {"InvalidSession", "NotFound", "NotRecognized", "Timeout", "Other"}

\* What execAsync can yield: structured JSON output, output that is not JSON,
\* output that is empty after trim (with or without stderr), or an exception.
Outcomes ==
    {[type |-> "json", session_id |-> t, result |-> r, is_error |-> e, kind |-> "none"] :
        t \in Tokens \cup {None}, r \in {None, "reply"}, e \in BOOLEAN}
    \cup {[type |-> "plain", session_id |-> None, result |-> "raw",
           is_error |-> FALSE, kind |-> "none"]}
    \cup {[type |-> "empty", session_id |-> None, result |-> None,
           is_error |-> e, kind |-> "none"] : e \in BOOLEAN}
    \cup {[type |-> "error", session_id |-> None, result |-> None,
           is_error |-> TRUE, kind |-> k] : k \in ErrorKinds}

\* writeFile(sessionFile, JSON.stringify(this.sessions)); a failed write is
\* only logged and is not modelled.
saveSessions(sess) == [state |-> "valid", data |-> sess]

\* Mutant: no command ever resumes a session.
ResumeTokenNone(conv, sid) == None

\* The resume token of the command: -r sessionId only in conversation mode
\* with a token in memory.
ResumeToken(conv, sid) == IF conv /\ sid # None THEN sid ELSE None

\* this.sessionId && (message.includes('session') || message.includes('not
\* found') || message.includes('invalid'))
ShouldRetry(sid, kind) ==
    sid # None /\ kind \in {"InvalidSession", "NotFound"}

\* Mutant: the invalid session is cleared in memory but its entry is kept.
InvalidateKeepEntry(sess, key) ==
    [sessions |-> sess, sessionId |-> None]

\* delete this.sessions[channelKey]; this.sessionId = null
InvalidateSession(sess, key) ==
    [sessions |-> [sess EXCEPT ![key] = None], sessionId |-> None]

\* The message of the failure object (lines 184-190).
ErrorMessage(kind) ==
    IF kind \in {"NotFound", "NotRecognized"}
    THEN "Claude CLI not found. Please check installation."
    ELSE IF kind = "Timeout"
    THEN "Claude request timed out. The query might be too complex."
    ELSE "error.message"

Failure(msg) == [ret |-> "object", isError |-> TRUE, result |-> msg]
Reply(txt) == [ret |-> "object", isError |-> FALSE, result |-> txt]
Returned(r) == [ret |-> r, isError |-> FALSE, result |-> None]

\* The value processMessage returns after output o that was not an exception.
ResultOf(o) ==
    IF o.type = "json"
    THEN IF o.result # None THEN Reply(o.result)
         ELSE IF o.is_error THEN Failure("Unknown error")
         ELSE Returned("undefined")
    ELSE IF o.type = "plain" THEN Reply(o.result)
    ELSE IF o.is_error THEN Failure("Error from Claude: stderr")
    ELSE Returned("null")

\* Values of Date.now() at the calls of processMessage: the retry can fall
\* in the millisecond of the call it retries, or in a later one.
Clock == {1, 2}

\* fs.writeFile(tempFile, prompt): the file claude-prompt-<now>.txt exists.
WriteFile(files, now) == files \cup {now}

\* Mutant: the failed invocation leaves its prompt file.
UnlinkInCatchSkipped(files, now) == files

\* fs.unlink(tempFile) of the catch block.
UnlinkInCatch(files, now) == files \ {now}

\* fs.unlink(tempFile) after execAsync returned.
UnlinkAfterExec(files, now) == files \ {now}

\* The latest invocation of the current call.
LastInvocation == invocations[Len(invocations)]

\* Mutant: the new session id is kept in memory only.
StoreTokenOnly(sess, key, token) ==
    [sessions |-> sess, sessionId |-> token]

\* this.sessionId = jsonResponse.session_id; this.sessions[channelKey] =
\* jsonResponse.session_id
StoreSession(sess, key, token) ==
    [sessions |-> [sess EXCEPT ![key] = token], sessionId |-> token]

\* The format of the reply processMessage of the loop builds from what the
\* agent returned: formatError for a failure object, formatResponse for a
\* result, no reply for null or undefined.
FormatOf(r) ==
    IF r.ret # "object" THEN "none"
    ELSE IF r.isError THEN "@author Error: message"
    ELSE "@author [$cost] text"

\* One run of the body of processMessage: the invocation with outcome o, then
\* the session update and the return, or the catch block. prior holds the
\* invocations of the enclosing call (the retry is a nested call). Each
\* invocation is recorded with the command's resume token, its outcome, and
\* the mapping, in-memory token and file it found.
RunProcessMessage(prior, o, now) ==
    LET key == getChannelKey(targetChannel)
        made == Append(prior, [resume |-> ResumeToken(useConversationMode, sessionId),
                               type |-> o.type, kind |-> o.kind,
                               returned |-> o.session_id,
                               before |-> sessions, sid |-> sessionId,
                               file |-> sessionFile,
                               prev |-> lastReturned,
                               afterRestart |-> restarted,
                               out |-> o, tempFile |-> now])
        written == WriteFile(tempFiles, now)
    IN /\ invocations' = made
       /\ tempFiles' = (IF o.type = "error"
                        THEN UnlinkInCatch(written, now)
                        ELSE UnlinkAfterExec(written, now))
       /\ lastReturned' = o.session_id
       /\ restarted' = FALSE
       /\ IF o.type = "error"
          THEN IF ShouldRetry(sessionId, o.kind)
               THEN LET c == InvalidateSession(sessions, key)
                    IN /\ sessions' = c.sessions
                       /\ sessionId' = c.sessionId
                       /\ sessionFile' = saveSessions(c.sessions)
                       /\ runnerPc' = "retry"
                       /\ result' = Returned("pending")
               ELSE /\ result' = Failure(ErrorMessage(o.kind))
                    /\ runnerPc' = "ready"
                    /\ UNCHANGED <<sessions, sessionId, sessionFile>>
          ELSE /\ IF o.type = "json" /\ o.session_id # None
                     /\ sessionId # o.session_id
                  THEN LET c == StoreSession(sessions, key, o.session_id)
                       IN /\ sessionId' = c.sessionId
                          /\ sessions' = c.sessions
                          /\ sessionFile' = saveSessions(c.sessions)
                  ELSE UNCHANGED <<sessions, sessionId, sessionFile>>
               /\ result' = ResultOf(o)
               /\ runnerPc' = "ready"
       /\ UNCHANGED <<targetChannel, useConversationMode>>
       /\ UNCHANGED <<feedVars, splitVars, loopVars, sendVars, histVars>>

\* new ClaudeAgent(config), before loadSessions; the file is whatever earlier
\* runs left.
InitRunner ==
    /\ targetChannel \in Channels
    /\ useConversationMode \in BOOLEAN
    /\ sessionFile \in SessionFiles
    /\ sessions = NoSessions
    /\ sessionId = None
    /\ runnerPc = "start"
    /\ invocations = <<>>
    /\ result = Returned("pending")
    /\ lastReturned = None
    /\ restarted = FALSE
    /\ tempFiles = {}

\* The runner is not part of the behaviour.
RunnerIdle ==
    /\ targetChannel = <<"g", "e", "n">>
    /\ useConversationMode = TRUE
    /\ sessionFile = [state |-> "absent", data |-> NoSessions]
    /\ sessions = NoSessions
    /\ sessionId = None
    /\ runnerPc = "start"
    /\ invocations = <<>>
    /\ result = Returned("pending")
    /\ lastReturned = None
    /\ restarted = FALSE
    /\ tempFiles = {}

\* async loadSessions()
LoadSessions ==
    /\ runnerPc = "start"
    /\ IF sessionFile.state = "valid"
       THEN /\ sessions' = sessionFile.data
            /\ sessionId' =
                 (IF sessionFile.data[getChannelKey(targetChannel)] # None
                  THEN sessionFile.data[getChannelKey(targetChannel)]
                  ELSE sessionId)
       ELSE /\ sessions' = NoSessions
            /\ UNCHANGED sessionId
    /\ runnerPc' = "ready"
    /\ UNCHANGED <<targetChannel, useConversationMode, sessionFile, invocations,
                   result, lastReturned, restarted, tempFiles>>
    /\ UNCHANGED <<feedVars, splitVars, loopVars, sendVars, histVars>>

\* async processMessage(message), called by the loop.
ProcessMessage ==
    /\ runnerPc = "ready"
    /\ \E o \in Outcomes, now \in Clock : RunProcessMessage(<<>>, o, now)

\* return await this.processMessage(message): the nested call of the catch
\* block.
RetryProcessMessage ==
    /\ runnerPc = "retry"
    /\ \E o \in Outcomes, now \in Clock :
          now >= LastInvocation.tempFile /\ RunProcessMessage(invocations, o, now)

\* The process ends and a new one is started on the same configuration: the
\* constructor's state again, the session file as the old process left it.
Restart ==
    /\ runnerPc # "start"
    /\ sessions' = NoSessions
    /\ sessionId' = None
    /\ runnerPc' = "start"
    /\ invocations' = <<>>
    /\ result' = Returned("pending")
    /\ restarted' = TRUE
    /\ UNCHANGED <<targetChannel, useConversationMode, sessionFile, lastReturned,
                   tempFiles>>
    /\ UNCHANGED <<feedVars, splitVars, loopVars, sendVars, histVars>>

(* ------------------------------------------------------------------ *)
(* The loop: run() of ChatOrchestrator and of the agent variant        *)
(* ------------------------------------------------------------------ *)
\* Characters of authors, contents and filter tokens: a letter in both cases,
\* the mention sign, another letter.
LoopChars == {"B", "b", "@", "x"}

\* toLowerCase() of one character.
ToLower(c) == IF c = "B" THEN "b" ELSE c

\* String.prototype.toLowerCase
toLowerCase(str) == [i \in 1 .. Len(str) |-> ToLower(str[i])]

\* String.prototype.includes
includes(str, search) ==
    \E i \in 1 .. (Len(str) - Len(search) + 1) :
        SubSeq(str, i, i + Len(search) - 1) = search

\* FILTER_MENTIONS: not set (null), or a user name.
Filters == {<<>>, <<"b">>}

\* The records a poll can return: authors written like the filter token, in
\* another case, or different; contents without the token, with the token in
\* another case, with an @ mention. getNewMessages returns no record of the
\* bot and none with empty content.
LoopAuthors == {<<"B">>, <<"x">>}
LoopContents == {<<"x">>, <<"x", "B">>, <<"@", "b">>}
LoopMessages == [author : LoopAuthors, content : LoopContents]

\* What aiAgent.processMessage can do: return a result, a failure object,
\* null, undefined, or throw.
AgentResults == {"reply", "error", "null", "undefined", "throws"}

\* What posting a reply can do.
PostResults == {"sent", "throws"}

\* Mutant: the token is looked for in the content as written.
shouldSendResponseExactCase(filter, content) ==
    \/ filter = <<>>
    \/ includes(content, filter)

\* shouldSendResponse(message); the agent variant computes the same inline.
shouldSendResponse(filter, content) ==
    \/ filter = <<>>
    \/ includes(toLowerCase(content), toLowerCase(filter))
    \/ includes(content, <<"@">> \o filter)

\* this.filterMentions && msg.author.toLowerCase() ===
\* this.filterMentions.toLowerCase()
FromFilteredUser(filter, author) ==
    filter # <<>> /\ toLowerCase(author) = toLowerCase(filter)

\* Whether processMessage of the loop returns a reply text for agent result a:
\* formatResponse for a result, formatError for a failure object or a throw,
\* null when the agent returned nothing.
HasResponse(a) == a \in {"reply", "error", "throws"}

\* Mutant: the reply is posted in testing mode too.
PostsIgnoringTestingMode(testing, filter, content) ==
    shouldSendResponse(filter, content)

\* The else branch of if (this.testingMode || !shouldRespond).
Posts(testing, filter, content) ==
    ~(testing \/ ~shouldSendResponse(filter, content))

NoMessage ==
    [author |-> <<>>, content |-> <<>>, forwarded |-> FALSE, agent |-> "none",
     response |-> FALSE, disposition |-> "none", stopped |-> FALSE]

\* The loop head. A loop that ignores the flag:
LoopContinuesForever(v, r) == TRUE

\* while (this.running) of the orchestrator; while (true) of the agent
\* variant's own run().
LoopContinues(v, r) == v = "agent" \/ r

NoFailure ==
    [polled |-> FALSE, pollFailed |-> FALSE, invokeFailed |-> FALSE,
     postFailed |-> FALSE, sleepFailed |-> FALSE]

\* The loop is not part of the behaviour.
LoopIdle ==
    /\ testingMode = FALSE
    /\ filterMentions = <<>>
    /\ running = FALSE
    /\ loopPc = "start"
    /\ pageClosed = FALSE
    /\ batchSize = 0
    /\ handled = 0
    /\ lastHandled = NoMessage
    /\ cycle = NoFailure

(* ------------------------------------------------------------------ *)
(* sendMessage: the search for the input box                           *)
(* ------------------------------------------------------------------ *)
\* The candidate selectors, in priority order.
Selectors == 1 .. 4

\* What await messageBox.isVisible() does for a selector: true, false, or a
\* throw, which the loop catches.
Visibilities == {"visible", "hidden", "throws"}

\* The selector the loop breaks at: the first visible one, 0 when none is.
FirstVisible(vis) ==
    IF \E k \in Selectors : vis[k] = "visible"
    THEN CHOOSE k \in Selectors :
            vis[k] = "visible" /\ \A j \in 1 .. (k - 1) : vis[j] # "visible"
    ELSE 0

\* messageBox after the for loop: it is assigned the locator of every
\* selector tried, before the visibility test, so without a visible one it
\* is left at the last selector.
LocateMessageBox(vis) ==
    IF FirstVisible(vis) # 0 THEN FirstVisible(vis) ELSE 4

\* No reply is being sent.
SendIdle ==
    /\ visible = [k \in Selectors |-> "visible"]
    /\ appears = FALSE
    /\ sendPc = "done"
    /\ messageBox = 0
    /\ sendError = "none"
    /\ posted = <<>>

\* Nothing has been observed.
HistIdle ==
    /\ botChunks = {}
    /\ lostIds = {}
    /\ emitCount = [i \in 1 .. MaxId |-> 0]
    /\ firstPollAt = 0

(* ------------------------------------------------------------------ *)
(* The feed reader's state machine                                    *)
(* ------------------------------------------------------------------ *)
InitFeed ==
    /\ variant \in Variants
    /\ envStartupLimit \in EnvLimits
    /\ startupMessageLimit = ConstructorLimit(MainLimit(envStartupLimit))
    /\ feed = <<>>
    /\ nextId = 1
    /\ lastMessageId = NoId
    /\ lastKnownAuthor = None
    /\ isStartup = TRUE
    /\ phase = "idle"
    /\ newMessages = <<>>
    /\ messages = <<>>
    /\ lastMessageIdBefore = NoId
    /\ lastKnownAuthorBefore = None
    /\ isStartupBefore = TRUE
    /\ repeatPoll = FALSE
    /\ SplitIdle
    /\ RunnerIdle
    /\ LoopIdle
    /\ SendIdle
    /\ HistIdle

\* What the loop holds of the last poll is dropped when the page changes:
\* the next thing the reader does is a new poll.
ForgetPoll ==
    /\ phase' = "idle"
    /\ newMessages' = <<>>
    /\ messages' = <<>>
    /\ lastMessageIdBefore' = NoId
    /\ lastKnownAuthorBefore' = None
    /\ isStartupBefore' = isStartup
    /\ repeatPoll' = FALSE

\* The host renders a new message at the end of the feed.
HostAppend ==
    /\ nextId <= MaxId
    /\ \E a \in RawAuthors, c \in Contents :
          feed' = Append(feed, [id |-> nextId, author |-> a, content |-> c])
    /\ nextId' = nextId + 1
    /\ ForgetPoll
    /\ UNCHANGED <<variant, envStartupLimit, startupMessageLimit, lastMessageId,
                   lastKnownAuthor, isStartup>>
    /\ UNCHANGED <<splitVars, runnerVars, loopVars, sendVars, histVars>>

\* The host stops rendering a message (deleted, or scrolled out).
HostRemove ==
    /\ \E i \in 1 .. Len(feed) :
          feed' = [k \in 1 .. (Len(feed) - 1) |->
                      IF k < i THEN feed[k] ELSE feed[k + 1]]
    /\ ForgetPoll
    /\ UNCHANGED <<variant, envStartupLimit, startupMessageLimit, nextId,
                   lastMessageId, lastKnownAuthor, isStartup>>
    /\ UNCHANGED <<splitVars, runnerVars, loopVars, sendVars, histVars>>

\* async getNewMessages(): extraction, author resolution, windowing, cursor.
GetNewMessages ==
    LET r == ResolveAuthors(variant, feed, lastKnownAuthor)
    IN /\ messages' = r.messages
       /\ lastKnownAuthor' = r.lastKnownAuthor
       /\ newMessages' = SelectNew(r.messages, lastMessageId, isStartup,
                                   startupMessageLimit)
       /\ lastMessageId' = AdvanceCursor(r.messages, lastMessageId)

\* markStartupComplete() (platform variant); the agent variant's run() clears
\* the flag inline at the same place.
MarkStartupComplete ==
    isStartup' = (IF isStartup THEN FALSE ELSE isStartup)

\* The head of a cycle of the loop: fetch, then mark startup complete.
PollBody ==
    /\ GetNewMessages
    /\ MarkStartupComplete
    /\ lastMessageIdBefore' = lastMessageId
    /\ lastKnownAuthorBefore' = lastKnownAuthor
    /\ isStartupBefore' = isStartup
    /\ repeatPoll' = (phase # "idle")
    /\ phase' = "polled"
    /\ UNCHANGED <<variant, envStartupLimit, startupMessageLimit, feed, nextId>>
    /\ UNCHANGED <<splitVars, runnerVars, loopVars, sendVars>>

\* A poll of the program itself: nothing is observed of it.
Poll ==
    /\ PollBody
    /\ UNCHANGED histVars

Init == InitFeed

Next ==
    \/ HostAppend
    \/ HostRemove
    \/ Poll

Spec == Init /\ [][Next]_vars

\* The platform variant alone.
InitPlatform == InitFeed /\ variant = "platform"

SpecPlatform == InitPlatform /\ [][Next]_vars

(* ------------------------------------------------------------------ *)
(* Properties of the feed reader                                      *)
(* ------------------------------------------------------------------ *)
\* In phase "polled" feed is the snapshot the last poll read and messages
\* the same records with their authors resolved.
Polled == phase = "polled"

Min(a, b) == IF a <= b THEN a ELSE b

\* Number of records of the startup window over n records with limit L.
WindowSize(n, L) == IF L = 0 THEN 0 ELSE IF L > 0 THEN Min(L, n) ELSE n

NonBotNonEmpty(m) == m.author # BotName /\ m.content # ""

\* First position of the emitted window of the last poll (Len + 1: empty).
WindowStart ==
    LET n == Len(messages) IN
    IF lastMessageIdBefore = NoId
    THEN IF isStartupBefore
         THEN n - WindowSize(n, startupMessageLimit) + 1
         ELSE 1
    ELSE IF \E p \in 1 .. n : messages[p].id = lastMessageIdBefore
         THEN (CHOOSE p \in 1 .. n : messages[p].id = lastMessageIdBefore) + 1
         ELSE n + 1

\* C1: every record returned by getNewMessages has non-empty content and an
\* author different from the bot name, in every branch of the windowing.
C1_EmittedNonBotNonEmpty ==
    \A i \in 1 .. Len(newMessages) :
        newMessages[i].content # "" /\ newMessages[i].author # BotName

\* A poll emitted some records of a snapshot that also holds a record of the
\* bot and a record with empty content.
C1_Witness ==
    /\ Polled
    /\ Len(newMessages) > 0
    /\ \E i \in 1 .. Len(messages) : messages[i].author = BotName
    /\ \E i \in 1 .. Len(messages) : messages[i].content = ""

\* C2: a poll of the snapshot the previous poll read returns an empty list
\* and leaves lastMessageId unchanged.
C2_RepeatPollEmitsNothing ==
    repeatPoll => newMessages = <<>> /\ lastMessageId = lastMessageIdBefore

\* A second poll of an unchanged snapshot with records that pass the filter.
C2_Witness ==
    /\ repeatPoll
    /\ Len(feed) >= 2
    /\ \A i \in 1 .. Len(messages) : NonBotNonEmpty(messages[i])

\* C3: the first poll (cursor unset, startup flag set) emits exactly the
\* non-bot non-empty records of the startup window, in feed order.
C3_StartupWindow ==
    (Polled /\ isStartupBefore /\ lastMessageIdBefore = NoId) =>
        LET n == Len(messages)
            w == WindowSize(n, startupMessageLimit)
        IN newMessages = SelectSeq(SubSeq(messages, n - w + 1, n), NonBotNonEmpty)

\* The first poll, with L = 2, over three records: two are emitted.
C3_Witness ==
    /\ Polled /\ isStartupBefore /\ lastMessageIdBefore = NoId
    /\ startupMessageLimit = 2
    /\ Len(messages) = 3
    /\ Len(newMessages) = 2

\* C4 as stated: every poll made while the cursor is unset is windowed, with
\* L = 0 it emits nothing and with L > 0 at most L records.
C4_WindowWheneverCursorUnset ==
    (Polled /\ lastMessageIdBefore = NoId) =>
        /\ startupMessageLimit = 0 => newMessages = <<>>
        /\ startupMessageLimit > 0 => Len(newMessages) <= startupMessageLimit

\* C4 as amended: the window governs the polls made while the cursor is unset
\* and the startup flag is still set; once startup is marked complete a poll
\* with the cursor unset emits every non-bot non-empty record of the snapshot.
C4_WindowOnlyWhileStartup ==
    /\ (Polled /\ lastMessageIdBefore = NoId /\ isStartupBefore) =>
          /\ startupMessageLimit = 0 => newMessages = <<>>
          /\ startupMessageLimit > 0 => Len(newMessages) <= startupMessageLimit
    /\ (Polled /\ lastMessageIdBefore = NoId /\ ~isStartupBefore) =>
          newMessages = SelectSeq(messages, NonBotNonEmpty)

\* With L = 0 and startup marked complete after a poll of an empty feed, a poll
\* with the cursor still unset emits records.
C4_Witness ==
    /\ Polled /\ lastMessageIdBefore = NoId /\ ~isStartupBefore
    /\ startupMessageLimit = 0
    /\ Len(newMessages) > 0

\* C5: after a poll of a non-empty snapshot lastMessageId is the id of its
\* newest record, whatever was emitted; after a poll of an empty snapshot it
\* is unchanged.
C5_CursorIsNewestId ==
    Polled =>
        IF Len(feed) > 0
        THEN lastMessageId = feed[Len(feed)].id
        ELSE lastMessageId = lastMessageIdBefore

\* A first poll with L = 0 over two records, the newest one the bot's: nothing
\* is emitted and the cursor is the newest id.
C5_Witness ==
    /\ Polled /\ isStartupBefore
    /\ startupMessageLimit = 0
    /\ Len(feed) = 2
    /\ feed[2].author = BotName
    /\ newMessages = <<>>
    /\ lastMessageId = feed[2].id

\* C6: a record extracted as Unknown gets the author of the nearest earlier
\* record of the snapshot whose author is resolved and not the bot; only when
\* there is none does it get the lastKnownAuthor held before the poll.
C6_ContinuationInference ==
    Polled =>
        \A i \in 1 .. Len(feed) :
            feed[i].author = Unknown =>
                LET js == {j \in 1 .. (i - 1) :
                             messages[j].author # Unknown
                             /\ messages[j].author # BotName}
                IN IF js # {}
                   THEN messages[i].author = messages[SetMax(js)].author
                   ELSE messages[i].author =
                          (IF lastKnownAuthorBefore # None
                           THEN lastKnownAuthorBefore ELSE Unknown)

\* C7: a record whose author cannot be resolved keeps author Unknown and is
\* emitted whenever its content is non-empty and it lies in the emitted window.
C7_UnknownStillEmitted ==
    Polled =>
        \A i \in 1 .. Len(feed) :
            (/\ feed[i].author = Unknown
             /\ lastKnownAuthorBefore = None
             /\ \A j \in 1 .. (i - 1) :
                   messages[j].author = Unknown \/ messages[j].author = BotName)
            => /\ messages[i].author = Unknown
               /\ (feed[i].content # "" /\ i >= WindowStart) =>
                     \E k \in 1 .. Len(newMessages) :
                         /\ newMessages[k].id = feed[i].id
                         /\ newMessages[k].author = Unknown

\* An unresolvable record with content was emitted as Unknown.
C7_Witness ==
    /\ Polled
    /\ lastKnownAuthorBefore = None
    /\ Len(feed) >= 2
    /\ feed[1].author = Unknown /\ feed[1].content # ""
    /\ feed[2].author \in Authors
    /\ \E k \in 1 .. Len(newMessages) :
          newMessages[k].id = feed[1].id /\ newMessages[k].author = Unknown

(* ------------------------------------------------------------------ *)
(* The chunker on its own: splitMessage applied to every small reply  *)
(* ------------------------------------------------------------------ *)
\* The reader at rest: nothing polled yet.
FeedAtRest ==
    /\ envStartupLimit = Undefined
    /\ startupMessageLimit = 0
    /\ feed = <<>>
    /\ nextId = 1
    /\ lastMessageId = NoId
    /\ lastKnownAuthor = None
    /\ isStartup = TRUE
    /\ phase = "idle"
    /\ newMessages = <<>>
    /\ messages = <<>>
    /\ lastMessageIdBefore = NoId
    /\ lastKnownAuthorBefore = None
    /\ isStartupBefore = TRUE
    /\ repeatPoll = FALSE

FeedIdle ==
    /\ variant = "platform"
    /\ FeedAtRest

InitSplit ==
    /\ FeedIdle
    /\ text \in TextsUpTo(MaxTextLen)
    /\ maxLength \in 1 .. MaxChunkLen
    /\ chunks = <<>>
    /\ splitPhase = "input"
    /\ RunnerIdle
    /\ LoopIdle
    /\ SendIdle
    /\ HistIdle

\* const chunks = this.splitMessage(text, maxLength)
SplitMessage ==
    /\ splitPhase = "input"
    /\ chunks' = splitMessage(text, maxLength)
    /\ splitPhase' = "done"
    /\ UNCHANGED <<text, maxLength>>
    /\ UNCHANGED <<feedVars, runnerVars, loopVars, sendVars, histVars>>

NextSplit == SplitMessage

SpecSplit == InitSplit /\ [][NextSplit]_vars

\* C8: every chunk splitMessage returns is at most maxLength long.
C8_ChunksWithinMaxLength ==
    (splitPhase = "done") =>
        \A i \in 1 .. Len(chunks) : Len(chunks[i]) <= maxLength

\* C9: joining the chunks with a line break gives back the text.
C9_RoundTrip ==
    (splitPhase = "done") => JoinLines(chunks) = text

\* C20: when STARTUP_MESSAGE_LIMIT is not configured the running bot has the
\* startup limit 3: its first poll emits the non-bot non-empty records among
\* the last 3 of the snapshot.
C20_DefaultStartupLimit ==
    (envStartupLimit = Undefined /\ Polled /\ isStartupBefore
        /\ lastMessageIdBefore = NoId) =>
        LET n == Len(messages)
            w == WindowSize(n, DocumentedDefaultLimit)
        IN /\ startupMessageLimit = DocumentedDefaultLimit
           /\ newMessages =
                 SelectSeq(SubSeq(messages, n - w + 1, n), NonBotNonEmpty)

(* ------------------------------------------------------------------ *)
(* The runner on its own: loadSessions, then calls of processMessage  *)
(* ------------------------------------------------------------------ *)
InitRunnerOnly ==
    /\ FeedIdle
    /\ SplitIdle
    /\ InitRunner
    /\ LoopIdle
    /\ SendIdle
    /\ HistIdle

NextRunner ==
    \/ LoadSessions
    \/ ProcessMessage
    \/ RetryProcessMessage
    \/ Restart

SpecRunner == InitRunnerOnly /\ [][NextRunner]_vars

\* The first invocation of the current call was made with a stored token and
\* failed with an invalid-session error.
InvalidSessionWithToken ==
    /\ Len(invocations) >= 1
    /\ invocations[1].resume # None
    /\ invocations[1].type = "error"
    /\ invocations[1].kind = "InvalidSession"

\* C10: after such a failure the channel's entry is removed, the in-memory
\* token cleared and the mapping flushed before the retry; the call makes
\* exactly one retry, without resume token, and if the retry fails too it
\* returns a failure.
C10_InvalidSessionRetriedOnce ==
    InvalidSessionWithToken =>
        /\ runnerPc = "retry" =>
              /\ Len(invocations) = 1
              /\ sessions[getChannelKey(targetChannel)] = None
              /\ sessionId = None
              /\ sessionFile = [state |-> "valid", data |-> sessions]
        /\ runnerPc = "ready" =>
              /\ Len(invocations) = 2
              /\ invocations[2].resume = None
              /\ invocations[2].type = "error" =>
                    (result.ret = "object" /\ result.isError)

\* A call whose invocation with a token failed as invalid session and whose
\* retry failed too has returned.
C10_Witness ==
    /\ InvalidSessionWithToken
    /\ runnerPc = "ready"
    /\ Len(invocations) = 2
    /\ invocations[2].type = "error"
    /\ result.isError

\* The channel key of the running process.
Key == getChannelKey(targetChannel)

\* C11: an invocation that fails with anything but an invalid-session error
\* (NotFound, NotRecognized, Timeout, Other) leaves the mapping and the
\* in-memory token as it found them, is not retried, and the call returns a
\* failure object.
C11_OtherFailuresKeepSession ==
    \A i \in 1 .. Len(invocations) :
        (invocations[i].type = "error" /\ invocations[i].kind # "InvalidSession") =>
            /\ i = Len(invocations)
            /\ runnerPc = "ready"
            /\ sessions = invocations[i].before
            /\ sessionId = invocations[i].sid
            /\ result.ret = "object" /\ result.isError

\* C12: in conversation mode, after an invocation that returned session id s
\* the mapping holds s under the channel key and the file holds the mapping;
\* the invocation that follows it, in this process or after a restart and
\* loadSessions, carries resume token s; and an invocation carries a resume
\* token exactly when conversation mode is on and the mapping held a token for
\* the channel.
C12_SessionContinuity ==
    /\ (useConversationMode /\ lastReturned # None /\ runnerPc = "ready"
            /\ Len(invocations) >= 1) =>
          /\ sessions[Key] = lastReturned
          /\ sessionFile = [state |-> "valid", data |-> sessions]
    /\ \A i \in 1 .. Len(invocations) :
          /\ (useConversationMode /\ invocations[i].prev # None) =>
                invocations[i].resume = invocations[i].prev
          /\ (invocations[i].resume # None) <=>
                (useConversationMode /\ invocations[i].before[Key] # None)

\* An invocation made after a restart and loadSessions resumed the session id
\* the last invocation of the old process had returned.
C12_Witness ==
    /\ useConversationMode
    /\ Len(invocations) >= 1
    /\ invocations[1].afterRestart
    /\ invocations[1].prev # None
    /\ invocations[1].resume = invocations[1].prev

\* C13: with conversation mode off no invocation carries a resume token, and
\* a session id an invocation returns is neither stored in the mapping nor
\* written to the file.
C13_NoPersistenceWhenDisabled ==
    (~useConversationMode) =>
        /\ \A i \in 1 .. Len(invocations) : invocations[i].resume = None
        /\ (Len(invocations) >= 1 /\ LastInvocation.returned # None) =>
              /\ sessions = LastInvocation.before
              /\ sessionFile = LastInvocation.file

\* C14: two different channel targets have different session keys, and an
\* invocation for this channel, whatever it stores or invalidates, leaves the
\* token of every other channel as it was in the mapping and in the file.
C14_ChannelsIndependent ==
    (Len(invocations) >= 1) =>
        \A c \in Channels \ {targetChannel} :
            /\ getChannelKey(c) # Key
            /\ sessions[getChannelKey(c)] = LastInvocation.before[getChannelKey(c)]
            /\ sessionFile.state = "valid" =>
                  sessionFile.data[getChannelKey(c)] = sessions[getChannelKey(c)]

\* C19: a call of processMessage that has returned returned an object, a
\* result or a failure, never null or undefined.
C19_ProcessMessageTotal ==
    (runnerPc = "ready" /\ Len(invocations) >= 1) =>
        /\ result.ret = "object"
        /\ result.isError \/ result.result # None

(* ------------------------------------------------------------------ *)
(* The loop on its own. What a poll returns is modelled by the feed    *)
(* reader above; here a poll returns any batch of up to MaxBatch       *)
(* records, and each record is chosen when the for loop reaches it.    *)
(* ------------------------------------------------------------------ *)
InitLoop ==
    /\ variant \in Variants
    /\ FeedAtRest
    /\ SplitIdle
    /\ RunnerIdle
    /\ SendIdle
    /\ HistIdle
    /\ testingMode \in BOOLEAN
    /\ filterMentions \in Filters
    /\ running = FALSE
    /\ loopPc = "start"
    /\ pageClosed = FALSE
    /\ batchSize = 0
    /\ handled = 0
    /\ lastHandled = NoMessage
    /\ cycle = NoFailure

\* run() is called: this.running = true, then the while loop.
StartRun ==
    /\ loopPc = "start"
    /\ running' = TRUE
    /\ loopPc' = "poll"
    /\ UNCHANGED <<testingMode, filterMentions, pageClosed, batchSize, handled,
                   lastHandled, cycle>>
    /\ UNCHANGED <<feedVars, splitVars, runnerVars, sendVars, histVars>>

\* while (this.running) finds the flag cleared: run() returns. The agent
\* variant's loop is while (true).
LoopReturn ==
    /\ loopPc = "poll"
    /\ ~LoopContinues(variant, running)
    /\ loopPc' = "returned"
    /\ UNCHANGED <<testingMode, filterMentions, running, pageClosed, batchSize,
                   handled, lastHandled, cycle>>
    /\ UNCHANGED <<feedVars, splitVars, runnerVars, sendVars, histVars>>

\* The head of a cycle: getNewMessages returns a batch, or throws (always
\* when the page is closed) and the catch block is entered.
LoopPoll ==
    /\ loopPc = "poll"
    /\ LoopContinues(variant, running)
    /\ \E ok \in BOOLEAN, n \in 0 .. MaxBatch :
          IF ok /\ ~pageClosed
          THEN /\ batchSize' = n
               /\ cycle' = [NoFailure EXCEPT !.polled = TRUE]
               /\ loopPc' = (IF n = 0 THEN "sleep" ELSE "dispatch")
          ELSE /\ batchSize' = 0
               /\ cycle' = [NoFailure EXCEPT !.pollFailed = TRUE]
               /\ loopPc' = "backoff"
    /\ handled' = 0
    /\ lastHandled' = NoMessage
    /\ UNCHANGED <<testingMode, filterMentions, running, pageClosed>>
    /\ UNCHANGED <<feedVars, splitVars, runnerVars, sendVars, histVars>>

\* One pass of for (const msg of newMessages): the skip of the filtered user,
\* processMessage, the decision to post or log, sendMessage. A throw of
\* sendMessage (or of the wait before it) leaves the for loop for the catch
\* block.
Dispatch ==
    /\ loopPc = "dispatch"
    /\ \E m \in LoopMessages, a \in AgentResults, p \in PostResults :
          LET skip == FromFilteredUser(filterMentions, m.author)
              resp == ~skip /\ HasResponse(a)
              post == resp /\ Posts(testingMode, filterMentions, m.content)
              fails == post /\ (p = "throws" \/ pageClosed)
          IN /\ lastHandled' =
                   [author |-> m.author, content |-> m.content,
                    forwarded |-> ~skip,
                    agent |-> (IF skip THEN "none" ELSE a),
                    response |-> resp,
                    disposition |->
                        (IF skip THEN "skipped"
                         ELSE IF ~resp THEN "none"
                         ELSE IF ~post THEN "logged"
                         ELSE IF fails THEN "failed" ELSE "sent"),
                    stopped |-> (variant = "platform" /\ ~running)]
             /\ cycle' = [cycle EXCEPT
                   !.invokeFailed = @ \/ (~skip /\ a \in {"error", "throws"}),
                   !.postFailed = fails]
             /\ loopPc' = (IF fails THEN "backoff"
                           ELSE IF handled + 1 = batchSize THEN "sleep"
                           ELSE "dispatch")
    /\ handled' = handled + 1
    /\ UNCHANGED <<testingMode, filterMentions, running, pageClosed, batchSize>>
    /\ UNCHANGED <<feedVars, splitVars, runnerVars, sendVars, histVars>>

\* The wait that ends a cycle: this.sleep(2000) of the orchestrator, which is
\* a timer; page.waitForTimeout(2000) of the agent variant, which throws into
\* the catch block when the page is closed.
Sleep ==
    /\ loopPc = "sleep"
    /\ IF variant = "agent" /\ pageClosed
       THEN /\ loopPc' = "backoff"
            /\ cycle' = [cycle EXCEPT !.sleepFailed = TRUE]
       ELSE /\ loopPc' = "poll"
            /\ UNCHANGED cycle
    /\ UNCHANGED <<testingMode, filterMentions, running, pageClosed, batchSize,
                   handled, lastHandled>>
    /\ UNCHANGED <<feedVars, splitVars, runnerVars, sendVars, histVars>>

\* The catch block: log, then this.sleep(5000) of the orchestrator, or
\* page.waitForTimeout(5000) of the agent variant, whose throw is caught by
\* nothing and rejects run().
Backoff ==
    /\ loopPc = "backoff"
    /\ loopPc' = (IF variant = "agent" /\ pageClosed THEN "rejected" ELSE "poll")
    /\ UNCHANGED <<testingMode, filterMentions, running, pageClosed, batchSize,
                   handled, lastHandled, cycle>>
    /\ UNCHANGED <<feedVars, splitVars, runnerVars, sendVars, histVars>>

\* async stop(), called while run() executes.
Stop ==
    /\ variant = "platform"
    /\ loopPc \notin {"start", "returned"}
    /\ running
    /\ running' = FALSE
    /\ UNCHANGED <<testingMode, filterMentions, loopPc, pageClosed, batchSize,
                   handled, lastHandled, cycle>>
    /\ UNCHANGED <<feedVars, splitVars, runnerVars, sendVars, histVars>>

\* The browser page is closed under the running loop (the window is closed,
\* the browser crashes).
PageCloses ==
    /\ loopPc \notin {"start", "returned", "rejected"}
    /\ ~pageClosed
    /\ pageClosed' = TRUE
    /\ UNCHANGED <<testingMode, filterMentions, running, loopPc, batchSize,
                   handled, lastHandled, cycle>>
    /\ UNCHANGED <<feedVars, splitVars, runnerVars, sendVars, histVars>>

NextLoop ==
    \/ StartRun
    \/ LoopReturn
    \/ LoopPoll
    \/ Dispatch
    \/ Sleep
    \/ Backoff
    \/ Stop
    \/ PageCloses

SpecLoop == InitLoop /\ [][NextLoop]_vars

\* The loop tried to post the reply to the latest message.
PostAttempted == lastHandled.disposition \in {"sent", "failed"}

\* C15: while testingMode is on the loop never posts a reply: a reply it has
\* for a message is logged.
C15_TestingModeNeverPosts ==
    testingMode =>
        /\ ~PostAttempted
        /\ lastHandled.response => lastHandled.disposition = "logged"

\* In testing mode a reply to a message that mentions the filter was logged.
C15_Witness ==
    /\ testingMode
    /\ lastHandled.response
    /\ shouldSendResponse(filterMentions, lastHandled.content)
    /\ lastHandled.disposition = "logged"

\* The content names the configured filter: it holds the token in any case,
\* or the token after an @ sign.
MentionsFilter(content) ==
    \/ includes(toLowerCase(content), toLowerCase(filterMentions))
    \/ includes(content, <<"@">> \o filterMentions)

\* C16: with testing mode off, the reply the loop has for a message is posted
\* exactly when no filter is configured or the content names the filter;
\* otherwise it is logged, and the message had been given to the assistant.
C16_MentionFilter ==
    (~testingMode /\ lastHandled.response) =>
        /\ PostAttempted <=>
              (filterMentions = <<>> \/ MentionsFilter(lastHandled.content))
        /\ ~PostAttempted =>
              (lastHandled.disposition = "logged" /\ lastHandled.forwarded)

\* With a filter configured and testing mode off, a reply to a message that
\* holds the token in another case was posted.
C16_Witness ==
    /\ ~testingMode
    /\ filterMentions = <<"b">>
    /\ lastHandled.content = <<"x", "B">>
    /\ lastHandled.disposition = "sent"

\* A cycle is over: its poll returned a batch and the for loop was left.
CycleOver == cycle.polled /\ loopPc # "dispatch"

\* C17: a failure of the assistant for, or of posting the reply to, one
\* message of a batch does not keep the loop from the remaining messages: at
\* the end of the cycle the for loop has been through the whole batch.
C17_ErrorsIsolatedPerMessage ==
    CycleOver => handled = batchSize

\* C18: a cycle in which polling, the assistant or posting failed ends with
\* the backoff sleep, not the normal sleep, and is followed by another poll;
\* run() does not reject, and it returns only after stop().
C18_LoopSurvivesFailures ==
    /\ (loopPc = "sleep") =>
          ~(cycle.pollFailed \/ cycle.invokeFailed \/ cycle.postFailed)
    /\ loopPc # "rejected"
    /\ (loopPc = "returned") => ~running

\* C21: structured output with is_error set makes processMessage return a
\* failure object, with or without result text, and the reply built from it
\* has the error format.
C21_IsErrorReportedAsFailure ==
    (runnerPc = "ready" /\ Len(invocations) >= 1
        /\ LastInvocation.out.type = "json" /\ LastInvocation.out.is_error) =>
        /\ result.ret = "object" /\ result.isError
        /\ FormatOf(result) = "@author Error: message"

\* C27: the in-memory token equals the mapping's entry for the channel key,
\* in every state: before and after loadSessions, after every call and
\* between a failed invocation and its retry.
C27_TokenMatchesMapping ==
    sessionId = sessions[Key]

\* A call stored a token, and a later call lost it to an invalid-session
\* failure and got a new one from the retry.
C27_Witness ==
    /\ runnerPc = "ready"
    /\ Len(invocations) = 2
    /\ invocations[1].sid # None
    /\ invocations[1].prev = invocations[1].sid
    /\ invocations[2].returned # None
    /\ invocations[2].returned # invocations[1].sid
    /\ sessionId = invocations[2].returned

\* C28: no prompt file exists when processMessage has returned, whatever the
\* outcome, nor between a failed invocation and its retry.
C28_PromptFilesRemoved ==
    tempFiles = {}

\* A call returned after an invalid-session retry that wrote a second prompt
\* file, and both files are gone.
C28_Witness ==
    /\ runnerPc = "ready"
    /\ Len(invocations) = 2
    /\ invocations[1].tempFile # invocations[2].tempFile
    /\ tempFiles = {}

(* ------------------------------------------------------------------ *)
(* sendMessage on its own                                              *)
(* ------------------------------------------------------------------ *)
InitSend ==
    /\ FeedIdle
    /\ RunnerIdle
    /\ LoopIdle
    /\ HistIdle
    /\ text \in TextsUpTo(MaxSendLen)
    /\ maxLength \in 1 .. MaxChunkLen
    /\ chunks = <<>>
    /\ splitPhase = "input"
    /\ visible \in [Selectors -> Visibilities]
    /\ appears \in BOOLEAN
    /\ sendPc = "call"
    /\ messageBox = 0
    /\ sendError = "none"
    /\ posted = <<>>

\* async sendMessage(text): the selector loop, the null test, splitMessage,
\* then fill and Enter for every chunk. fill waits for the located element:
\* on one that is not visible it ends with Playwright's timeout error unless
\* the element shows up while it waits.
SendMessage ==
    /\ sendPc = "call"
    /\ LET box == LocateMessageBox(visible)
           cs == splitMessage(text, maxLength)
           usable == FirstVisible(visible) # 0 \/ appears
       IN /\ messageBox' = box
          /\ chunks' = cs
          /\ IF box = 0
             THEN /\ sendError' = "Could not find message input box"
                  /\ posted' = <<>>
             ELSE IF usable
             THEN /\ sendError' = "none"
                  /\ posted' = [i \in 1 .. Len(cs) |->
                                   [selector |-> box, chunk |-> cs[i]]]
             ELSE /\ sendError' = "TimeoutError"
                  /\ posted' = <<>>
    /\ splitPhase' = "done"
    /\ sendPc' = "done"
    /\ UNCHANGED <<text, maxLength, visible, appears>>
    /\ UNCHANGED <<feedVars, runnerVars, loopVars, histVars>>

NextSend == SendMessage

SpecSend == InitSend /\ [][NextSend]_vars

\* C29: with no selector visible sendMessage throws 'Could not find message
\* input box' and fills nothing; with one visible it fills and submits every
\* chunk through the first visible selector.
C29_InputBoxSelection ==
    (sendPc = "done") =>
        IF \A k \in Selectors : visible[k] # "visible"
        THEN sendError = "Could not find message input box" /\ posted = <<>>
        ELSE /\ sendError = "none"
             /\ Len(posted) = Len(chunks)
             /\ \A i \in 1 .. Len(posted) :
                   /\ posted[i].chunk = chunks[i]
                   /\ visible[posted[i].selector] = "visible"
                   /\ \A j \in 1 .. (posted[i].selector - 1) :
                         visible[j] # "visible"

(* ------------------------------------------------------------------ *)
(* Shutdown of the orchestrator loop. Every step of run() is an await  *)
(* that completes: the steps of the loop are weakly fair; stop() and   *)
(* the closing of the page are not.                                    *)
(* ------------------------------------------------------------------ *)
LoopStep == LoopReturn \/ LoopPoll \/ Dispatch \/ Sleep \/ Backoff

SpecLoopFair == InitLoop /\ [][NextLoop]_vars /\ WF_vars(LoopStep)

\* stop() was called while the orchestrator's run() was executing.
Stopped == variant = "platform" /\ loopPc # "start" /\ ~running

\* C30: once stop() has been called under a running loop, the flag stays
\* cleared, the loop head starts no poll (from the head the loop only
\* returns), and run() returns once the cycle in progress has finished.
C30_Shutdown ==
    /\ [][Stopped =>
            /\ ~running'
            /\ (loopPc = "poll" => loopPc' \in {"poll", "returned"})
            /\ (loopPc = "returned" => loopPc' = "returned")]_vars
    /\ (Stopped ~> (loopPc = "returned"))

\* run() has returned, and the last reply of its last cycle was posted after
\* stop() had been called.
C30_Witness ==
    /\ loopPc = "returned"
    /\ lastHandled.stopped
    /\ lastHandled.disposition = "sent"

(* ------------------------------------------------------------------ *)
(* Author resolution and the cursor, further properties               *)
(* ------------------------------------------------------------------ *)
\* The author of record j of the snapshot is headed and is not the bot.
HeadedNonBot(j) == feed[j].author # Unknown /\ feed[j].author # BotName

\* C23: on a poll that starts with lastKnownAuthor unset, an unheaded record
\* with no headed non-bot record before it in the snapshot does not get the
\* author of a record that comes after it.
C23_ResolutionLooksBackward ==
    (Polled /\ lastKnownAuthorBefore = None) =>
        \A i \in 1 .. Len(feed) :
            (/\ feed[i].author = Unknown
             /\ \A j \in 1 .. (i - 1) : ~HeadedNonBot(j))
            => \A k \in (i + 1) .. Len(feed) :
                  HeadedNonBot(k) => messages[i].author # feed[k].author

\* C24: after a poll lastKnownAuthor is the resolved author of the last
\* record of the snapshot whose resolved author is neither Unknown nor the
\* bot, or, with no such record, what it was before the poll; it is never
\* the bot's name or Unknown.
C24_LastKnownAuthor ==
    /\ lastKnownAuthor # BotName
    /\ lastKnownAuthor # Unknown
    /\ Polled =>
          LET js == {j \in 1 .. Len(messages) :
                       messages[j].author # Unknown
                       /\ messages[j].author # BotName}
          IN IF js # {}
             THEN lastKnownAuthor = messages[SetMax(js)].author
             ELSE lastKnownAuthor = lastKnownAuthorBefore

\* A poll moved lastKnownAuthor from one user to another, over a snapshot
\* that ends with a continuation record of the second user.
C24_Witness ==
    /\ Polled
    /\ lastKnownAuthorBefore \in Authors
    /\ lastKnownAuthor \in Authors \ {lastKnownAuthorBefore}
    /\ Len(feed) = 2
    /\ feed[1].author = lastKnownAuthor
    /\ feed[2].author = Unknown
    /\ messages[2].author = lastKnownAuthor

(* ------------------------------------------------------------------ *)
(* The feed with the bot's own multi-chunk replies in it               *)
(* ------------------------------------------------------------------ *)
\* sendMessage posts a reply of two chunks; the host renders the first with
\* the bot's username header and the second, from the same author right
\* after it, without a header: the extraction reads it as Unknown.
BotReply ==
    /\ nextId + 1 <= MaxId
    /\ \E c \in Contents \ {""} :
          feed' = feed \o <<[id |-> nextId, author |-> BotName, content |-> c],
                            [id |-> nextId + 1, author |-> Unknown,
                             content |-> c]>>
    /\ nextId' = nextId + 2
    /\ botChunks' = botChunks \cup {nextId + 1}
    /\ ForgetPoll
    /\ UNCHANGED <<variant, envStartupLimit, startupMessageLimit, lastMessageId,
                   lastKnownAuthor, isStartup>>
    /\ UNCHANGED <<splitVars, runnerVars, loopVars, sendVars>>
    /\ UNCHANGED <<lostIds, emitCount, firstPollAt>>

NextReply ==
    \/ HostAppend
    \/ HostRemove
    \/ BotReply
    \/ Poll

SpecReply == Init /\ [][NextReply]_vars

\* C22: no record written by the bot is returned by a poll: neither a record
\* under the bot's name nor a continuation chunk of one of its replies.
C22_BotMessagesNeverEmitted ==
    Polled =>
        \A k \in 1 .. Len(newMessages) :
            /\ newMessages[k].author # BotName
            /\ newMessages[k].id \notin botChunks

(* ------------------------------------------------------------------ *)
(* Polls observed: the snapshots read with the cursor's record missing *)
(* ------------------------------------------------------------------ *)
\* this.lastMessageId is set and no record of the snapshot has that id.
CursorMissing(msgs, last) ==
    last # NoId /\ \A p \in 1 .. Len(msgs) : msgs[p].id # last

Ids(msgs) == {msgs[p].id : p \in 1 .. Len(msgs)}

\* A poll; the ids of a snapshot read with the cursor missing are recorded.
PollLosing ==
    /\ PollBody
    /\ lostIds' = (IF CursorMissing(feed, lastMessageId)
                   THEN lostIds \cup Ids(feed) ELSE lostIds)
    /\ UNCHANGED <<botChunks, emitCount, firstPollAt>>

NextLostCursor ==
    \/ HostAppend
    \/ HostRemove
    \/ PollLosing

SpecLostCursor == Init /\ [][NextLostCursor]_vars

\* C25: a poll that finds lastMessageId set and its record missing from the
\* snapshot returns nothing and sets lastMessageId to the newest id of the
\* snapshot (an empty snapshot has none and leaves it as it is); no poll
\* returns a record of a snapshot that was read that way.
C25_MissingCursorDropsSnapshot ==
    Polled =>
        /\ CursorMissing(feed, lastMessageIdBefore) =>
              /\ newMessages = <<>>
              /\ lastMessageId = (IF Len(feed) > 0 THEN feed[Len(feed)].id
                                  ELSE lastMessageIdBefore)
        /\ \A k \in 1 .. Len(newMessages) : newMessages[k].id \notin lostIds

\* A record of a user, with content, was in a snapshot read with the cursor
\* missing and is still in the feed, and the poll after it returned a later
\* record and not this one.
C25_Witness ==
    /\ Polled
    /\ Len(feed) = 2
    /\ feed[1].id \in lostIds
    /\ feed[1].author \in Authors /\ feed[1].content # ""
    /\ Len(newMessages) = 1
    /\ newMessages[1].id = feed[2].id

(* ------------------------------------------------------------------ *)
(* Polls observed on a feed that only grows                            *)
(* ------------------------------------------------------------------ *)
\* Number of records of msgs with id i.
Occurrences(msgs, i) == Cardinality({k \in 1 .. Len(msgs) : msgs[k].id = i})

\* A poll; what it returns is counted per id, and the first poll is marked
\* with the id the next appended record will get.
PollCounting ==
    /\ PollBody
    /\ emitCount' = [i \in DOMAIN emitCount |->
                        emitCount[i] + Occurrences(newMessages', i)]
    /\ firstPollAt' = (IF firstPollAt = 0 THEN nextId ELSE firstPollAt)
    /\ UNCHANGED <<botChunks, lostIds>>

\* Between polls the host only appends: no record is removed, and the record
\* at lastMessageId stays in the feed.
NextAppendOnly ==
    \/ HostAppend
    \/ PollCounting

SpecAppendOnly == Init /\ [][NextAppendOnly]_vars

\* The record at position p of the feed was appended after the first poll.
AppendedAfterFirstPoll(p) == firstPollAt # 0 /\ feed[p].id >= firstPollAt

\* C26: on a feed that only grows, no record appended after the first poll
\* has been returned by more than one poll; once a poll has read it, such a
\* record with content and an author other than the bot has been returned
\* by exactly one; and the records a poll returns are in feed order.
C26_ExactlyOnce ==
    /\ \A p \in 1 .. Len(feed) :
          AppendedAfterFirstPoll(p) => emitCount[feed[p].id] <= 1
    /\ Polled =>
          /\ \A p \in 1 .. Len(feed) :
                (/\ AppendedAfterFirstPoll(p)
                 /\ feed[p].author # BotName
                 /\ feed[p].content # "")
                => emitCount[feed[p].id] = 1
          /\ \A k1, k2 \in 1 .. Len(newMessages) :
                k1 < k2 =>
                    \E p1, p2 \in 1 .. Len(feed) :
                        /\ p1 < p2
                        /\ feed[p1].id = newMessages[k1].id
                        /\ feed[p2].id = newMessages[k2].id

\* Two records of users were appended after the first poll, one before and
\* one after the second poll, and each was returned by one poll.
C26_Witness ==
    /\ Polled
    /\ firstPollAt = 2
    /\ Len(feed) = 3
    /\ feed[2].author \in Authors /\ feed[2].content # ""
    /\ feed[3].author \in Authors /\ feed[3].content # ""
    /\ emitCount[2] = 1
    /\ emitCount[3] = 1
    /\ Len(newMessages) = 1
    /\ newMessages[1].id = 3

====
